---- MODULE Spec2Model ----
(***************************************************************************)
(* Kernel test runner of kernel/src/test/runner.rs, its reporting           *)
(* vocabulary (kernel/src/test/mod.rs) and the deferred-call dispatcher      *)
(* that drives it.                                                           *)
(*                                                                           *)
(* The runner's operations are state transformers over a record `st` that    *)
(* holds the runner's cells, the dispatcher's flag for the runner, the       *)
(* debug output sink and an observation log (the order in which the code     *)
(* performs its effects).  Each action of the state machine is one whole     *)
(* entry point: register(), run_all(), or one main-loop pass that services   *)
(* the pending deferred call.                                                *)
(***************************************************************************)
EXTENDS Integers, Sequences, FiniteSets, TLC

\* ------------------------------------------------------------------ bounds

\* Largest registry (number of TestDescriptors) explored.
MaxTests == 3

\* Largest number of run_all() calls explored on one runner.
MaxRunAll == 3

\* ------------------------------------------------------- results, registry

\* Diagnostic byte strings a failing test may carry (SubSlice<'static, u8>):
\* "ok" followed by U+00E9 in two bytes (valid text), and "f" followed by a
\* lead byte whose continuation byte is missing (not valid text).
Messages == { <<111, 107, 195, 169>>, <<102, 195>> }

\* enum TestResult { Pass, Fail(SubSlice<'static, u8>) }
TestResult ==
    { [tag |-> "Pass", msg |-> <<>>] }
        \cup { [tag |-> "Fail", msg |-> m] : m \in Messages }

\* struct TestDescriptor { name, test_fn }.  The name of the descriptor at
\* position i is the identifier i (two descriptors never share a name); the
\* function is represented by the result it returns when called.
TestDescriptor(i, r) == [name |-> i, test_fn |-> r]

\* Every registry of at most MaxTests descriptors.
Registries ==
    UNION { { [i \in 1..n |-> TestDescriptor(i, f[i])] : f \in [1..n -> TestResult] }
            : n \in 0..MaxTests }

\* ------------------------------------------------------------------- state

VARIABLES
    tests,          \* KernelTestRunner.tests: the registry the runner holds
    current_index,  \* KernelTestRunner.current_index
    passed,         \* KernelTestRunner.passed
    failed,         \* KernelTestRunner.failed
    registered,     \* the runner's DeferredCall has a client registered
    pending,        \* the dispatcher's pending flag of the runner's DeferredCall
    fatal,          \* a dispatcher misuse was detected (the kernel stopped)
    output,         \* the lines written to the debug sink, in order
    log,            \* observation log: the effects of the code, in order
    run_all_calls,  \* number of run_all() calls made so far
    hw,             \* the HardwareTestRunner, its output and what it invoked
    boot            \* the board's boot sequence (main): position and tokens

vars == << tests, current_index, passed, failed, registered, pending, fatal,
           output, log, run_all_calls, hw, boot >>

\* The part of the state the runner's code reads and writes.
State ==
    [ current_index |-> current_index, passed |-> passed, failed |-> failed,
      registered |-> registered, pending |-> pending, fatal |-> fatal,
      output |-> output, log |-> log ]

Commit(s) ==
    /\ current_index' = s.current_index
    /\ passed' = s.passed
    /\ failed' = s.failed
    /\ registered' = s.registered
    /\ pending' = s.pending
    /\ fatal' = s.fatal
    /\ output' = s.output
    /\ log' = s.log

\* Append one observation to the log.
Note(st, ev, i) == [st EXCEPT !.log = Append(@, [ev |-> ev, i |-> i])]

\* ------------------------------------------------------------- TestOutput

\* One line of the debug sink: the format string and the values formatted
\* into it (name, two counts, message text).
Line(fmt, name, a, b, msg) ==
    [fmt |-> fmt, name |-> name, a |-> a, b |-> b, msg |-> msg]

Emit(st, line) == [st EXCEPT !.output = Append(@, line)]

\* The text "(invalid UTF-8)" as its bytes.
InvalidUtf8Text == <<40, 105, 110, 118, 97, 108, 105, 100, 32, 85, 84, 70, 45, 56, 41>>

IsCont(b) == b >= 128 /\ b <= 191

\* core::str::from_utf8(msg).is_ok(): every scalar is well-formed.
RECURSIVE Utf8Valid(_)
Utf8Valid(bytes) ==
    IF bytes = <<>> THEN TRUE
    ELSE LET b0 == Head(bytes)
             n  == Len(bytes)
         IN  IF b0 < 128 THEN Utf8Valid(Tail(bytes))
             ELSE IF b0 >= 194 /\ b0 <= 223
                  THEN /\ n >= 2
                       /\ IsCont(bytes[2])
                       /\ Utf8Valid(SubSeq(bytes, 3, n))
             ELSE IF b0 >= 224 /\ b0 <= 239
                  THEN /\ n >= 3
                       /\ IsCont(bytes[2])
                       /\ (b0 = 224 => bytes[2] >= 160)
                       /\ (b0 = 237 => bytes[2] <= 159)
                       /\ IsCont(bytes[3])
                       /\ Utf8Valid(SubSeq(bytes, 4, n))
             ELSE IF b0 >= 240 /\ b0 <= 244
                  THEN /\ n >= 4
                       /\ IsCont(bytes[2])
                       /\ (b0 = 240 => bytes[2] >= 144)
                       /\ (b0 = 244 => bytes[2] <= 143)
                       /\ IsCont(bytes[3])
                       /\ IsCont(bytes[4])
                       /\ Utf8Valid(SubSeq(bytes, 5, n))
             ELSE FALSE

test_start(st, name) == Emit(st, Line("[TEST] Running {}", name, 0, 0, <<>>))

test_pass(st, name) == Emit(st, Line("[PASS] {}", name, 0, 0, <<>>))

\* Variant: the stored bytes are written without the validity check.
test_fail_raw(st, name, msg) ==
    Emit(st, Line("[FAIL] {}: {}", name, 0, 0, msg))

test_fail(st, name, msg) ==
    IF Utf8Valid(msg)
    THEN Emit(st, Line("[FAIL] {}: {}", name, 0, 0, msg))
    ELSE Emit(st, Line("[FAIL] {}: {}", name, 0, 0, InvalidUtf8Text))

suite_start(st, count) ==
    Emit(st, Line("[TEST] Starting kernel test suite ({} tests)", 0, count, 0, <<>>))

suite_complete(st, p, f) ==
    Emit(st, Line("[TEST] Test suite complete: {} passed, {} failed", 0, p, f, <<>>))

\* ------------------------------------------------------------- dispatcher

\* DeferredCall::set(): mark the client's notification pending.  Setting an
\* already pending flag changes nothing (the flag is not a count).  A set()
\* on a DeferredCall that has no registered client is a fatal misuse.
\* The log records whether the call armed the flag (1) or found it armed (0).
DeferredCall_set(st) ==
    IF ~st.registered
    THEN [Note(st, "set_unregistered", 0) EXCEPT !.fatal = TRUE]
    ELSE [Note(st, "set", IF st.pending THEN 0 ELSE 1) EXCEPT !.pending = TRUE]

\* DeferredCall::register(client)
DeferredCall_register(st) == [st EXCEPT !.registered = TRUE]

\* ------------------------------------------------------- KernelTestRunner

\* Variant: the cursor moves two entries ahead.
advance_to_next_test_skip(st) ==
    LET s1 == [st EXCEPT !.current_index = @ + 2]
    IN  DeferredCall_set(Note(s1, "advanced", st.current_index))

\* Variant: the cursor moves but no further notification is requested.
advance_to_next_test_noset(st) ==
    LET s1 == [st EXCEPT !.current_index = @ + 1]
    IN  Note(s1, "advanced", st.current_index)

advance_to_next_test(st) ==
    LET s1 == [st EXCEPT !.current_index = @ + 1]
    IN  DeferredCall_set(Note(s1, "advanced", st.current_index))

\* Variant: a Fail is counted in `passed`.
handle_test_result_miscount(st, name, result) ==
    IF result.tag = "Pass"
    THEN LET s1 == test_pass(st, name)
             s2 == [s1 EXCEPT !.passed = @ + 1]
         IN  advance_to_next_test(Note(s2, "counted", st.current_index))
    ELSE LET s1 == test_fail(st, name, result.msg)
             s2 == [s1 EXCEPT !.passed = @ + 1]
         IN  advance_to_next_test(Note(s2, "counted", st.current_index))

\* Variant: a Fail is reported and counted but the runner does not advance.
handle_test_result_halt(st, name, result) ==
    IF result.tag = "Pass"
    THEN LET s1 == test_pass(st, name)
             s2 == [s1 EXCEPT !.passed = @ + 1]
         IN  advance_to_next_test(Note(s2, "counted", st.current_index))
    ELSE LET s1 == test_fail(st, name, result.msg)
             s2 == [s1 EXCEPT !.failed = @ + 1]
         IN  Note(s2, "counted", st.current_index)

\* Variant: a Pass is counted but its line is not written.
handle_test_result_silent(st, name, result) ==
    IF result.tag = "Pass"
    THEN LET s2 == [st EXCEPT !.passed = @ + 1]
         IN  advance_to_next_test(Note(s2, "counted", st.current_index))
    ELSE LET s1 == test_fail(st, name, result.msg)
             s2 == [s1 EXCEPT !.failed = @ + 1]
         IN  advance_to_next_test(Note(s2, "counted", st.current_index))

\* Variant: a Fail is reported but not counted.
handle_test_result_nocount(st, name, result) ==
    IF result.tag = "Pass"
    THEN LET s1 == test_pass(st, name)
             s2 == [s1 EXCEPT !.passed = @ + 1]
         IN  advance_to_next_test(Note(s2, "counted", st.current_index))
    ELSE LET s1 == test_fail(st, name, result.msg)
         IN  advance_to_next_test(Note(s1, "counted", st.current_index))

handle_test_result(st, name, result) ==
    IF result.tag = "Pass"
    THEN LET s1 == test_pass(st, name)
             s2 == [s1 EXCEPT !.passed = @ + 1]
         IN  advance_to_next_test(Note(s2, "counted", st.current_index))
    ELSE LET s1 == test_fail(st, name, result.msg)
             s2 == [s1 EXCEPT !.failed = @ + 1]
         IN  advance_to_next_test(Note(s2, "counted", st.current_index))

run_next(st) ==
    LET index == st.current_index
        s0 == Note(st, "run_next_enter", index)
    IN  IF index >= Len(tests)
        THEN Note(Note(suite_complete(s0, st.passed, st.failed), "summary", index),
                  "run_next_exit", index)
        ELSE LET test == tests[index + 1]
                 s1 == Note(test_start(s0, test.name), "test_start", index)
                 result == test.test_fn
                 s2 == Note(s1, "invoke", index)
                 s3 == handle_test_result(s2, test.name, result)
             IN  Note(s3, "run_next_exit", index)

\* Variant: the callback performs two steps.
handle_deferred_call_loop(st) ==
    run_next(run_next(Note(st, "callback", st.current_index)))

handle_deferred_call(st) == run_next(Note(st, "callback", st.current_index))

\* Variant: run_all performs the first step itself, after requesting the
\* notification.
run_all_eager(st) ==
    run_next(DeferredCall_set(Note(suite_start(st, Len(tests)), "run_all", Len(tests))))

\* Variant: run_all requests the notification and also calls the callback.
run_all_direct(st) ==
    handle_deferred_call(
        DeferredCall_set(Note(suite_start(st, Len(tests)), "run_all", Len(tests))))

\* Variant: run_all requests the notification only when a client is registered.
run_all_unchecked(st) ==
    LET s1 == Note(suite_start(st, Len(tests)), "run_all", Len(tests))
    IN  IF st.registered THEN DeferredCall_set(s1) ELSE s1

\* Variant: run_all rewinds the cursor and the counters.
run_all_reset(st) ==
    DeferredCall_set(
        Note(suite_start([st EXCEPT !.current_index = 0, !.passed = 0, !.failed = 0],
                         Len(tests)),
             "run_all", Len(tests)))

run_all(st) ==
    DeferredCall_set(Note(suite_start(st, Len(tests)), "run_all", Len(tests)))

register(st) == DeferredCall_register(st)

\* One pass of the main loop over the pending deferred calls: the client's
\* flag is cleared, then its callback is invoked, once.
service_pending(st) ==
    handle_deferred_call([Note(st, "pass", 0) EXCEPT !.pending = FALSE])

\* ----------------------------------------------------- HardwareTestRunner

\* Largest sequence of hardware tests explored.
MaxHwTests == 3

\* Board identifiers.
Boards == { "board-A", "board-B" }

\* What a test's run() returns: Ok(()) or Err(msg).
RunResults == { [ok |-> TRUE, msg |-> ""], [ok |-> FALSE, msg |-> "timeout"] }

\* Most calls of HardwareTestRunner::run_all on one runner explored.
MaxHwRunAll == 2

\* A HardwareTest: name(), supported_boards() (empty = all boards), run().
HardwareTest(i, boards, r) == [name |-> i, supported_boards |-> boards, run |-> r]

HardwareTestSuites ==
    UNION { { [i \in 1..n |-> HardwareTest(i, b[i], r[i])] :
                  b \in [1..n -> SUBSET Boards], r \in [1..n -> RunResults] }
            : n \in 0..MaxHwTests }

\* One line of the hardware runner's output: format, number, text.
HwLine(fmt, n, t) == [fmt |-> fmt, n |-> n, s |-> t]

HwEmit(h, line) == [h EXCEPT !.output = Append(@, line)]

\* HardwareTestRunner::new(tests, board); `invoked` lists the tests whose
\* run() was called and `results` the classification of each handled test,
\* over all calls of run_all; `starts` holds, for each call of run_all, the
\* lengths of the three sequences when it was entered; `done` says that a
\* call of run_all has returned.
HardwareTestRunner_new(ts, board) ==
    [ tests |-> ts, current_board |-> board, output |-> <<>>,
      invoked |-> <<>>, results |-> <<>>, starts |-> <<>>, done |-> FALSE ]

\* Variant: an empty supported_boards() is taken to mean "no board".
run_single_test_emptyskips(h, test) ==
    LET h1 == HwEmit(h, HwLine("Running: {}", test.name, ""))
    IN  IF ~(h.current_board \in test.supported_boards)
        THEN [ h |-> HwEmit(h1, HwLine("  SKIP: Not supported on {}", 0, h.current_board)),
               result |-> [tag |-> "Skip", msg |-> "Board not supported"] ]
        ELSE LET h2 == [h1 EXCEPT !.invoked = Append(@, test.name)]
             IN  IF test.run.ok
                 THEN [ h |-> HwEmit(h2, HwLine("  PASS", 0, "")),
                        result |-> [tag |-> "Pass", msg |-> ""] ]
                 ELSE [ h |-> HwEmit(h2, HwLine("  FAIL: {}", 0, test.run.msg)),
                        result |-> [tag |-> "Fail", msg |-> test.run.msg] ]

\* HardwareTestRunner::run_single_test: the runner after the test and the
\* TestResult returned.
run_single_test(h, test) ==
    LET h1 == HwEmit(h, HwLine("Running: {}", test.name, ""))
        supported == test.supported_boards
    IN  IF supported # {} /\ ~(h.current_board \in supported)
        THEN [ h |-> HwEmit(h1, HwLine("  SKIP: Not supported on {}", 0, h.current_board)),
               result |-> [tag |-> "Skip", msg |-> "Board not supported"] ]
        ELSE LET h2 == [h1 EXCEPT !.invoked = Append(@, test.name)]
             IN  IF test.run.ok
                 THEN [ h |-> HwEmit(h2, HwLine("  PASS", 0, "")),
                        result |-> [tag |-> "Pass", msg |-> ""] ]
                 ELSE [ h |-> HwEmit(h2, HwLine("  FAIL: {}", 0, test.run.msg)),
                        result |-> [tag |-> "Fail", msg |-> test.run.msg] ]

\* Variant: the loop of run_all ends at the first test that fails.
RECURSIVE run_all_loop_stoponfail(_, _)
run_all_loop_stoponfail(acc, i) ==
    IF i > Len(acc.h.tests) THEN acc
    ELSE LET r == run_single_test(acc.h, acc.h.tests[i])
             h1 == [r.h EXCEPT !.results = Append(@, r.result.tag)]
             a1 == [ h |-> h1,
                     passed |-> acc.passed + (IF r.result.tag = "Pass" THEN 1 ELSE 0),
                     failed |-> acc.failed + (IF r.result.tag = "Fail" THEN 1 ELSE 0),
                     skipped |-> acc.skipped + (IF r.result.tag = "Skip" THEN 1 ELSE 0) ]
         IN  IF r.result.tag = "Fail" THEN a1 ELSE run_all_loop_stoponfail(a1, i + 1)

\* The loop of run_all from test i on: acc carries the runner and the three
\* local counters.
RECURSIVE run_all_loop(_, _)
run_all_loop(acc, i) ==
    IF i > Len(acc.h.tests) THEN acc
    ELSE LET r == run_single_test(acc.h, acc.h.tests[i])
             h1 == [r.h EXCEPT !.results = Append(@, r.result.tag)]
         IN  run_all_loop(
                 [ h |-> h1,
                   passed |-> acc.passed + (IF r.result.tag = "Pass" THEN 1 ELSE 0),
                   failed |-> acc.failed + (IF r.result.tag = "Fail" THEN 1 ELSE 0),
                   skipped |-> acc.skipped + (IF r.result.tag = "Skip" THEN 1 ELSE 0) ],
                 i + 1)

\* Variant: the summary counts a skipped test as failed.
run_all_summary_skipfails(acc) ==
    LET h1 == HwEmit(acc.h, HwLine("", 0, ""))
        h2 == HwEmit(h1, HwLine("=== Test Summary ===", 0, ""))
        h3 == HwEmit(h2, HwLine("Passed:  {}", acc.passed, ""))
        h4 == HwEmit(h3, HwLine("Failed:  {}", acc.failed + acc.skipped, ""))
        h5 == HwEmit(h4, HwLine("Skipped: {}", acc.skipped, ""))
        h6 == HwEmit(h5, HwLine("Total:   {}", Len(acc.h.tests), ""))
    IN  IF acc.failed + acc.skipped = 0
        THEN HwEmit(h6, HwLine("=== All tests passed! ===", 0, ""))
        ELSE HwEmit(h6, HwLine("=== Tests FAILED ===", 0, ""))

\* The summary and verdict lines of run_all.
run_all_summary(acc) ==
    LET h1 == HwEmit(acc.h, HwLine("", 0, ""))
        h2 == HwEmit(h1, HwLine("=== Test Summary ===", 0, ""))
        h3 == HwEmit(h2, HwLine("Passed:  {}", acc.passed, ""))
        h4 == HwEmit(h3, HwLine("Failed:  {}", acc.failed, ""))
        h5 == HwEmit(h4, HwLine("Skipped: {}", acc.skipped, ""))
        h6 == HwEmit(h5, HwLine("Total:   {}", Len(acc.h.tests), ""))
    IN  IF acc.failed = 0
        THEN HwEmit(h6, HwLine("=== All tests passed! ===", 0, ""))
        ELSE HwEmit(h6, HwLine("=== Tests FAILED ===", 0, ""))

\* HardwareTestRunner::run_all
HardwareTestRunner_run_all(h0) ==
    LET h  == [h0 EXCEPT !.starts = Append(@, [ output |-> Len(h0.output),
                                                invoked |-> Len(h0.invoked),
                                                results |-> Len(h0.results) ])]
        h1 == HwEmit(h, HwLine("=== Hardware Test Suite Starting ===", 0, ""))
        h2 == HwEmit(h1, HwLine("Board: {}", 0, h.current_board))
        h3 == HwEmit(h2, HwLine("Tests: {}", Len(h.tests), ""))
        h4 == HwEmit(h3, HwLine("", 0, ""))
        acc == run_all_loop([h |-> h4, passed |-> 0, failed |-> 0, skipped |-> 0], 1)
    IN  [run_all_summary(acc) EXCEPT !.done = TRUE]

\* ------------------------------------------------------------ boot (main)

\* Iterations of the delay loops of main (0..1000000) and of run_simple_test
\* (0..100000), scaled down.
DelayIters == 40
SimpleDelayIters == 20

CapabilityKinds == { "MainLoopCapability", "SetDebugWriterCapability" }

\* test_names of TestLauncher::next and TestLauncher::done
test_names ==
    << "test_mpu_basic_configuration", "test_mpu_region_boundaries",
       "test_mpu_flash_protection", "test_mpu_peripheral_isolation",
       "test_mpu_overlapping_regions", "test_mpu_null_pointer_protection",
       "test_mpu_fault_handling", "test_mpu_process_isolation" >>

\* One debug!() line of the board: format, numeric argument, name argument.
BootLine(fmt, a, name) == [ fmt |-> fmt, a |-> a, name |-> name ]

\* TestLauncher::new; calls records, for every call of next, the number of
\* TestLauncher frames on the stack when it was entered (depth counts them).
TestLauncher_new == [ test_index |-> 0, out |-> <<>>, depth |-> 0, calls |-> <<>> ]

\* A method of the launcher is entered / returns.
Enter(l) == [l EXCEPT !.depth = l.depth + 1]
Leave(l) == [l EXCEPT !.depth = l.depth - 1]

RECURSIVE TestLauncher_next(_)
RECURSIVE TestLauncher_done(_, _)

\* TestLauncher::next
TestLauncher_next(l0) ==
    LET l == [Enter(l0) EXCEPT !.calls = Append(l0.calls, l0.depth + 1)]
        index == l.test_index
    IN  IF index >= Len(test_names)
        THEN Leave([l EXCEPT !.out = l.out \o
                 << BootLine("[TEST] Test suite complete: {} tests run", Len(test_names), ""),
                    BootLine("[TEST] All tests completed", 0, "") >>])
        ELSE Leave(TestLauncher_done(
                 [l EXCEPT !.out = Append(l.out,
                               BootLine("[TEST] Running test {}: {}", index + 1,
                                        test_names[index + 1])),
                           !.test_index = index + 1],
                 "Ok"))

\* TestLauncher::done
TestLauncher_done(l0, result) ==
    LET l == Enter(l0)
        index == l.test_index
        l1 == IF index > 0 /\ index <= Len(test_names)
              THEN [l EXCEPT !.out = Append(l.out,
                       BootLine(IF result = "Ok" THEN "[TEST] {} - PASSED"
                                ELSE "[TEST] {} - FAILED", 0, test_names[index]))]
              ELSE l
    IN  Leave(TestLauncher_next(l1))

\* TestLauncher::start
TestLauncher_start(l0) ==
    LET l == Enter(l0)
    IN  Leave(TestLauncher_next([l EXCEPT !.out = Append(l.out,
                          BootLine("[TEST] Starting kernel test suite", 0, ""))]))

\* The boot sequence before its first statement; kernel_test is the cargo
\* feature the board was built with. mints are the capability tokens created
\* so far, uses the gated operations performed so far.
BootReset(kernel_test) ==
    [ kernel_test |-> kernel_test, pc |-> "init_chip", i |-> 0,
      mints |-> <<>>, uses |-> <<>>, out |-> <<>>,
      launcher |-> TestLauncher_new ]

\* Positions of main that lie inside a loop body.
LoopPcs == { "delay", "simple_delay_1", "simple_delay_2", "simple_delay_3",
             "kernel_loop" }

\* create_capability!(kind) executed at position b.pc
create_capability(b, kind) ==
    [b EXCEPT !.mints = Append(b.mints, [ kind |-> kind, pc |-> b.pc ])]

\* A gated operation called with the token mints[token].
Gated(b, op, token) ==
    [b EXCEPT !.uses = Append(b.uses, [ op |-> op, token |-> token ])]

BootDebug(b, fmt) == [b EXCEPT !.out = Append(b.out, BootLine(fmt, 0, ""))]

Goto(b, pc) == [b EXCEPT !.pc = pc, !.i = 0]

\* for _ in 0..iters { nop() }, one iteration per step
nop_loop(b, iters, next) ==
    IF b.i < iters THEN [b EXCEPT !.i = b.i + 1] ELSE Goto(b, next)

\* board_kernel.kernel_loop(.., &main_loop_capability) with a token minted
\* again at the call site
kernel_loop_enter_fresh(b) ==
    LET b1 == create_capability(b, "MainLoopCapability")
    IN  Goto(Gated(b1, "kernel_loop", Len(b1.mints)), "kernel_loop")

\* board_kernel.kernel_loop(.., &main_loop_capability): presents the token
\* bound to main_loop_capability, the first one minted; never returns.
kernel_loop_enter(b) ==
    Goto(Gated(b, "kernel_loop", 1), "kernel_loop")

\* DebugWriterComponent::new(uart_mux, create_capability!(SetDebugWriterCapability))
debug_writer_component(b) ==
    LET b1 == create_capability(b, "SetDebugWriterCapability")
    IN  Gated(b1, "set_debug_writer", Len(b1.mints))

\* simple_test::run_simple_test, one statement or loop iteration per step
run_simple_test(b) ==
    CASE b.pc = "simple_start"   -> Goto(BootDebug(b, "=== SIMPLE TEST START ==="), "simple_delay_1")
      [] b.pc = "simple_delay_1" -> nop_loop(b, SimpleDelayIters, "simple_msg_1")
      [] b.pc = "simple_msg_1"   -> Goto(BootDebug(b, "Test message 1"), "simple_delay_2")
      [] b.pc = "simple_delay_2" -> nop_loop(b, SimpleDelayIters, "simple_msg_2")
      [] b.pc = "simple_msg_2"   -> Goto(BootDebug(b, "Test message 2"), "simple_delay_3")
      [] b.pc = "simple_delay_3" -> nop_loop(b, SimpleDelayIters, "simple_end")
      [] b.pc = "simple_end"     -> Goto(BootDebug(b, "=== SIMPLE TEST END ==="), "banner")

SimpleTestPcs == { "simple_start", "simple_delay_1", "simple_msg_1", "simple_delay_2",
                   "simple_msg_2", "simple_delay_3", "simple_end" }

\* main, one statement or loop iteration per step
main(b) ==
    CASE b.pc = "init_chip"      -> Goto(b, "main_loop_capability")
      [] b.pc = "main_loop_capability" ->
             Goto(create_capability(b, "MainLoopCapability"), "platform")
      [] b.pc = "platform"       -> Goto(b, "debug_writer")
      [] b.pc = "debug_writer"   ->
             Goto(debug_writer_component(b),
                  IF b.kernel_test THEN "delay" ELSE "kernel_loop_call")
      [] b.pc = "delay"          -> nop_loop(b, DelayIters, "simple_start")
      [] b.pc \in SimpleTestPcs  -> run_simple_test(b)
      [] b.pc = "banner"         ->
             Goto(BootDebug(b, "=== NRF52840DK Kernel Test Starting ==="), "launcher_new")
      [] b.pc = "launcher_new"   ->
             Goto([b EXCEPT !.launcher = TestLauncher_new], "launcher_start")
      [] b.pc = "launcher_start" ->
             LET l == TestLauncher_start(b.launcher)
             IN  Goto([b EXCEPT !.launcher = [l EXCEPT !.out = <<>>],
                                !.out = b.out \o l.out], "kernel_loop_call")
      [] b.pc = "kernel_loop_call" -> kernel_loop_enter(b)

\* ----------------------------------------------------------------- actions

\* KernelTestRunner::new(tests)
Init ==
    /\ tests \in Registries
    /\ current_index = 0
    /\ passed = 0
    /\ failed = 0
    /\ registered = FALSE
    /\ pending = FALSE
    /\ fatal = FALSE
    /\ output = <<>>
    /\ log = <<>>
    /\ run_all_calls = 0
    /\ hw = HardwareTestRunner_new(<<>>, "board-A")
    /\ boot = BootReset(TRUE)

Register ==
    /\ ~fatal
    /\ ~registered
    /\ Commit(register(State))
    /\ UNCHANGED << tests, run_all_calls, hw, boot >>

\* Variant: run_all drops the descriptor it has just passed from the registry.
RunAll_consume ==
    /\ ~fatal
    /\ run_all_calls < MaxRunAll
    /\ run_all_calls' = run_all_calls + 1
    /\ Commit(run_all(State))
    /\ tests' = IF tests = <<>> THEN tests ELSE Tail(tests)
    /\ UNCHANGED << hw, boot >>

RunAll ==
    /\ ~fatal
    /\ run_all_calls < MaxRunAll
    /\ run_all_calls' = run_all_calls + 1
    /\ Commit(run_all(State))
    /\ UNCHANGED << tests, hw, boot >>

MainLoopPass ==
    /\ ~fatal
    /\ pending
    /\ Commit(service_pending(State))
    /\ UNCHANGED << tests, run_all_calls, hw, boot >>

Next == Register \/ RunAll \/ MainLoopPass

Spec == Init /\ [][Next]_vars

\* The main loop keeps iterating: a pending deferred call is eventually serviced.
FairSpec == Spec /\ WF_vars(MainLoopPass)

\* Longest diagnostic byte string explored by RenderSpec.
MaxMsgLen == 3

\* Bytes the diagnostics are built from: an ASCII letter, continuation bytes
\* 0x80, 0xA0 and 0xBF, the lead bytes 0xC2, 0xE0, 0xED and 0xF0, and 0xFF.
MessageBytes == { 65, 128, 160, 191, 194, 224, 237, 240, 255 }

ByteStrings == UNION { [1..n -> MessageBytes] : n \in 0..MaxMsgLen }

\* KernelTestRunner::new over a registry of a failing test, whose diagnostic
\* is any of the byte strings, followed by a passing test.
RenderInit ==
    /\ tests \in { << TestDescriptor(1, [tag |-> "Fail", msg |-> m]),
                      TestDescriptor(2, [tag |-> "Pass", msg |-> <<>>]) >> :
                   m \in ByteStrings }
    /\ current_index = 0
    /\ passed = 0
    /\ failed = 0
    /\ registered = FALSE
    /\ pending = FALSE
    /\ fatal = FALSE
    /\ output = <<>>
    /\ log = <<>>
    /\ run_all_calls = 0
    /\ hw = HardwareTestRunner_new(<<>>, "board-A")
    /\ boot = BootReset(TRUE)

\* One start of the suite, then the main loop.
RenderNext == Register \/ (run_all_calls = 0 /\ RunAll) \/ MainLoopPass

RenderSpec == RenderInit /\ [][RenderNext]_vars

\* A KernelTestRunner over the empty registry that nothing starts.
RunnerUnused ==
    /\ tests = <<>>
    /\ current_index = 0
    /\ passed = 0
    /\ failed = 0
    /\ registered = FALSE
    /\ pending = FALSE
    /\ fatal = FALSE
    /\ output = <<>>
    /\ log = <<>>
    /\ run_all_calls = 0

\* HardwareTestRunner::new(tests, board) for every suite and board.
HwInit ==
    /\ RunnerUnused
    /\ hw \in { HardwareTestRunner_new(ts, b) : ts \in HardwareTestSuites, b \in Boards }
    /\ boot = BootReset(TRUE)

\* HardwareTestRunner::run_all, callable any number of times.
HwRunAll ==
    /\ Len(hw.starts) < MaxHwRunAll
    /\ hw' = HardwareTestRunner_run_all(hw)
    /\ UNCHANGED << tests, current_index, passed, failed, registered, pending,
                    fatal, output, log, run_all_calls, boot >>

HwNext == HwRunAll

HwSpec == HwInit /\ [][HwNext]_vars

\* The board boots, built with or without the kernel_test feature.
BootInit ==
    /\ RunnerUnused
    /\ hw = HardwareTestRunner_new(<<>>, "board-A")
    /\ boot \in { BootReset(TRUE), BootReset(FALSE) }

\* The next statement of main; kernel_loop never returns.
BootStep ==
    /\ boot.pc # "kernel_loop"
    /\ boot' = main(boot)
    /\ UNCHANGED << tests, current_index, passed, failed, registered, pending,
                    fatal, output, log, run_all_calls, hw >>

BootNext == BootStep

BootSpec == BootInit /\ [][BootNext]_vars

\* ------------------------------------------------- observations of a state

N == Len(tests)

\* Positions of the log that hold observation ev.
Pos(ev) == { k \in 1..Len(log) : log[k].ev = ev }

\* Number of observations ev among the first k entries of the log.
CountUpTo(ev, k) == Cardinality({ j \in 1..k : log[j].ev = ev })

Count(ev) == CountUpTo(ev, Len(log))

\* Positions of the output that hold a line of format fmt.
Lines(fmt) == { k \in 1..Len(output) : output[k].fmt = fmt }

StartFmt == "[TEST] Starting kernel test suite ({} tests)"
CompleteFmt == "[TEST] Test suite complete: {} passed, {} failed"
RunningFmt == "[TEST] Running {}"
PassFmt == "[PASS] {}"
FailFmt == "[FAIL] {}: {}"

SummaryEmitted == Lines(CompleteFmt) # {}

\* The indices whose test function was invoked, in invocation order.
Invoked ==
    LET inv == SelectSeq(log, LAMBDA e : e.ev = "invoke")
    IN  [j \in 1..Len(inv) |-> inv[j].i]

PassCount == Cardinality({ i \in 1..N : tests[i].test_fn.tag = "Pass" })
FailCount == Cardinality({ i \in 1..N : tests[i].test_fn.tag = "Fail" })

\* Position of the first summary observation (0 when there is none).
FirstSummary ==
    IF Pos("summary") = {} THEN 0
    ELSE CHOOSE k \in Pos("summary") : \A j \in Pos("summary") : k <= j

\* ------------------------------------------------------------------ claims

\* C1 as stated: once the summary is emitted, indices 0..N-1 were visited
\* exactly once each in ascending order and exactly N notifications were
\* delivered up to the summary.
C1_CompleteAfterNNotifications ==
    SummaryEmitted =>
        /\ Invoked = [j \in 1..N |-> j - 1]
        /\ CountUpTo("callback", FirstSummary) = N

\* C1 as amended: the test functions are invoked at indices 0, 1, 2, ... in
\* ascending order, each at most once and never past N-1; the test at index
\* i runs in notification i+1; and when the summary is emitted all N indices
\* have been visited and the summary is first emitted by notification N+1.
C1_VisitsAscendingSummaryInNotificationNPlus1 ==
    /\ Len(Invoked) <= N
    /\ \A j \in 1..Len(Invoked) : Invoked[j] = j - 1
    /\ \A k \in Pos("invoke") : CountUpTo("callback", k) = log[k].i + 1
    /\ SummaryEmitted =>
           /\ Len(Invoked) = N
           /\ CountUpTo("callback", FirstSummary) = N + 1

C1_Witness ==
    /\ N >= 2
    /\ SummaryEmitted
    /\ Invoked = [j \in 1..N |-> j - 1]
    /\ CountUpTo("callback", FirstSummary) = N + 1

\* C2: a Fail never halts the suite.  Every summary line carries passed =
\* number of Pass results and failed = number of Fail results of the registry
\* and is preceded by one start line per registered test; and a started,
\* registered runner with no notification pending has emitted its summary
\* (it never stops in the middle of the registry).
C2_FailNeverHalts ==
    /\ \A k \in Lines(CompleteFmt) :
           /\ output[k].a = PassCount
           /\ output[k].b = FailCount
           /\ Cardinality({ j \in Lines(RunningFmt) : j < k }) = N
           /\ { output[j].name : j \in { x \in Lines(RunningFmt) : x < k } } = 1..N
    /\ (registered /\ ~fatal /\ run_all_calls > 0 /\ ~pending) => SummaryEmitted

\* The registry [Pass, Fail, Pass] has run to its summary: 2 passed, 1 failed,
\* three start lines.
C2_Witness ==
    /\ N = 3
    /\ tests[1].test_fn.tag = "Pass"
    /\ tests[2].test_fn.tag = "Fail"
    /\ tests[3].test_fn.tag = "Pass"
    /\ \E k \in Lines(CompleteFmt) : output[k].a = 2 /\ output[k].b = 1
    /\ Cardinality(Lines(RunningFmt)) = 3

\* C3 as stated: for an empty registry, run_all itself reports the summary
\* with 0 passed and 0 failed.
C3_StartReportsSummary ==
    (N = 0 /\ registered /\ ~fatal /\ run_all_calls > 0) =>
        \E k \in Lines(CompleteFmt) : output[k].a = 0 /\ output[k].b = 0

\* C3 as amended: for an empty registry, run_all writes only the suite-start
\* line (count 0); the summary, 0 passed and 0 failed, is written by each
\* notification delivered afterwards and by nothing else; no per-test line is
\* ever written.
C3_EmptyRegistrySummaryOnNotification ==
    N = 0 =>
        /\ \A k \in 1..Len(output) :
               \/ output[k] = Line(StartFmt, 0, 0, 0, <<>>)
               \/ output[k] = Line(CompleteFmt, 0, 0, 0, <<>>)
        /\ Cardinality(Lines(StartFmt)) = run_all_calls
        /\ Cardinality(Lines(CompleteFmt)) = Count("callback")

C3_Witness ==
    /\ N = 0
    /\ run_all_calls = 1
    /\ output = << Line(StartFmt, 0, 0, 0, <<>>), Line(CompleteFmt, 0, 0, 0, <<>>) >>

\* Number of set() calls, among the first k observations, that armed the flag.
ArmedUpTo(k) == Cardinality({ j \in 1..k : log[j].ev = "set" /\ log[j].i = 1 })

\* Number of set() calls among the first k observations.
SetsUpTo(k) == CountUpTo("set", k)

\* C4: coalescing.  However many set() calls precede a servicing, the
\* callback is invoked once for them: every callback answers exactly one
\* arming of the flag, set() calls that find the flag armed add no
\* invocation, and at most one invocation is owed at any time.
C4_SetCoalesces ==
    /\ \A k \in Pos("callback") : CountUpTo("callback", k) = ArmedUpTo(k)
    /\ Count("callback") + (IF pending THEN 1 ELSE 0) = ArmedUpTo(Len(log))

\* run_all was called at least twice before the first servicing (and again a
\* third set() found the flag armed); the callback ran once and nothing more
\* is pending.
C4_Witness ==
    /\ N = 0
    /\ Count("callback") = 1
    /\ ~pending
    /\ \E k \in Pos("callback") : SetsUpTo(k) >= 2 /\ ArmedUpTo(k) = 1

\* The observations of the pass that starts at position k of the log.
PassEnd(k) ==
    IF \E j \in Pos("pass") : j > k
    THEN (CHOOSE j \in Pos("pass") : j > k /\ \A x \in Pos("pass") : x > k => j <= x) - 1
    ELSE Len(log)

InPass(ev, k) == { j \in (k + 1)..PassEnd(k) : log[j].ev = ev }

\* C5: the flag is cleared before the callback runs, so the set() the runner
\* makes inside handle_deferred_call arms the flag anew (it is not lost), the
\* runner is invoked once per pass, at most one test step runs per pass, and
\* while tests remain the next notification is pending after the pass.
C5_RearmSurvivesOneStepPerPass ==
    /\ \A k \in Pos("pass") :
           /\ Cardinality(InPass("callback", k)) = 1
           /\ Cardinality(InPass("run_next_enter", k)) = 1
           /\ Cardinality(InPass("invoke", k)) <= 1
    /\ \A k \in Pos("advanced") :
           /\ k < Len(log)
           /\ log[k + 1] = [ev |-> "set", i |-> 1]
    /\ (registered /\ ~fatal /\ run_all_calls > 0 /\ current_index < N) => pending

\* Two test steps have run, in two different passes, and a third pass is owed.
C5_Witness ==
    /\ Count("pass") = 2
    /\ Count("invoke") = 2
    /\ pending
    /\ \A k \in Pos("pass") : Cardinality(InPass("invoke", k)) = 1

\* C6: strict sequential execution.  When test i+1 starts, test i's result
\* line has been written, its counter update made (passed + failed counted i+1
\* times) and the cursor advanced past it; in the output, the start line of a
\* test is preceded by the Pass/Fail line of the test before it.
C6_NextStartsAfterCommit ==
    /\ \A k \in Pos("test_start") :
           LET i == log[k].i
           IN  /\ CountUpTo("counted", k) = i
               /\ CountUpTo("advanced", k) = i
               /\ i > 0 =>
                      /\ \E c \in 1..k : log[c] = [ev |-> "counted", i |-> i - 1]
                      /\ \E a \in 1..k : log[a] = [ev |-> "advanced", i |-> i - 1]
    /\ \A p \in Lines(RunningFmt) :
           output[p].name > 1 =>
               \E q \in 1..p :
                   /\ output[q].fmt \in { PassFmt, FailFmt }
                   /\ output[q].name = output[p].name - 1
    /\ passed + failed = current_index

\* The second test has started after a passing first test.
C6_Witness ==
    /\ N >= 2
    /\ tests[1].test_fn.tag = "Pass"
    /\ \E k \in Pos("test_start") : log[k].i = 1
    /\ \E p \in Lines(RunningFmt) : output[p].name = 2

\* Number of run_next activations open after the first k observations.
Depth(k) == CountUpTo("run_next_enter", k) - CountUpTo("run_next_exit", k)

\* C7: run_next is entered only from the notification callback, never from
\* within itself (depth at most 1); after advancing, the runner only requests
\* a notification and returns; each notification invokes at most one test
\* function, and exactly one while tests remain.
C7_OneTestPerNotificationNoDirectCall ==
    /\ \A k \in Pos("run_next_enter") : k > 1 /\ log[k - 1].ev = "callback"
    /\ \A k \in 1..Len(log) : Depth(k) \in {0, 1}
    /\ \A k \in Pos("advanced") :
           /\ k + 2 <= Len(log)
           /\ log[k + 1].ev = "set"
           /\ log[k + 2].ev = "run_next_exit"
    /\ \A k \in Pos("invoke") : CountUpTo("invoke", k) = CountUpTo("callback", k)
    /\ Count("callback") = Count("run_next_enter")

\* Three notifications were delivered; the first two each ran one test.
C7_Witness ==
    /\ Count("callback") = 3
    /\ Count("invoke") >= 2
    /\ \E k \in Pos("invoke") : log[k].i = 1 /\ CountUpTo("callback", k) = 2

\* C8: once the summary has been emitted the runner is permanently idle: no
\* later step writes a line or changes current_index, passed or failed.
C8_IdleAfterSummary ==
    [][SummaryEmitted => UNCHANGED << output, current_index, passed, failed >>]_vars

\* C9: the output is exactly the line protocol (or a prefix of it, while the
\* suite is running): line 1 is the suite-start line carrying N; lines 2i and
\* 2i+1 are the start line and the Pass or Fail line of the i-th registered
\* test; line 2N+2 is the suite-complete line carrying the counts; nothing
\* else is written.
C9_OutputIsLineProtocol ==
    /\ Len(output) <= 2 * N + 2
    /\ \A p \in 1..Len(output) :
           IF p = 1
           THEN output[p].fmt = StartFmt /\ output[p].a = N
           ELSE IF p = 2 * N + 2
           THEN /\ output[p].fmt = CompleteFmt
                /\ output[p].a = PassCount
                /\ output[p].b = FailCount
           ELSE IF p % 2 = 0
           THEN output[p].fmt = RunningFmt /\ output[p].name = p \div 2
           ELSE /\ output[p].name = p \div 2
                /\ output[p].fmt =
                       (IF tests[p \div 2].test_fn.tag = "Pass" THEN PassFmt ELSE FailFmt)

\* C10: under a main loop that keeps servicing the dispatcher, a suite
\* started on a registered runner eventually emits its summary.
C10_StartedSuiteTerminates ==
    (registered /\ ~fatal /\ run_all_calls > 0) ~> SummaryEmitted

\* A registry of failing tests only has run to its summary.
C10_Witness ==
    /\ registered
    /\ N >= 2
    /\ \A i \in 1..N : tests[i].test_fn.tag = "Fail"
    /\ \E k \in Lines(CompleteFmt) : output[k].a = 0 /\ output[k].b = N

\* C11: after completion, passed + failed equals the number of tests whose
\* function was invoked (and so does every summary line's passed + failed).
C11_CountsEqualInvocations ==
    SummaryEmitted =>
        /\ passed + failed = Count("invoke")
        /\ \A k \in Lines(CompleteFmt) : output[k].a + output[k].b = Count("invoke")

\* A registry with a failing and a passing test has completed.
C11_Witness ==
    /\ SummaryEmitted
    /\ Count("invoke") >= 2
    /\ passed >= 1
    /\ failed >= 1

\* ------------------------------------------- hardware runner observations

\* The skip condition of the claim: the test names boards and the current
\* board is not one of them.
NotForThisBoard(i) ==
    /\ hw.tests[i].supported_boards # {}
    /\ hw.current_board \notin hw.tests[i].supported_boards

\* The calls of run_all made so far, numbered from 1.
HwCalls == 1..Len(hw.starts)

\* What call c of run_all appended to the runner's sequence f (output,
\* invoked or results).
HwSeg(f, c) ==
    SubSeq(hw[f], hw.starts[c][f] + 1,
           IF c < Len(hw.starts) THEN hw.starts[c + 1][f] ELSE Len(hw[f]))

\* Number of calls of run() on the test named n during call c of run_all.
RunCalls(c, n) ==
    Cardinality({ k \in 1..Len(HwSeg("invoked", c)) : HwSeg("invoked", c)[k] = n })

\* The number printed by the (only) line of format fmt of call c; -1 when
\* the line is missing or repeated.
HwPrinted(c, fmt) ==
    LET out == HwSeg("output", c)
        at == { k \in 1..Len(out) : out[k].fmt = fmt }
    IN  IF Cardinality(at) = 1 THEN out[CHOOSE k \in at : TRUE].n ELSE -1

HwLineCount(c, fmt) ==
    Cardinality({ k \in 1..Len(HwSeg("output", c)) : HwSeg("output", c)[k].fmt = fmt })

\* C12: skip rule.  In every call of run_all, a test is classified Skip, and
\* its run() is not called, exactly when it names boards and the current
\* board is not among them; every other test has run() called exactly once
\* and is classified Pass for Ok and Fail for Err.
C12_SkipIffBoardNotSupported ==
    /\ hw.done <=> HwCalls # {}
    /\ \A c \in HwCalls :
        LET res == HwSeg("results", c)
        IN  /\ Len(res) = Len(hw.tests)
            /\ \A i \in 1..Len(hw.tests) :
                   /\ (res[i] = "Skip") <=> NotForThisBoard(i)
                   /\ NotForThisBoard(i) => RunCalls(c, hw.tests[i].name) = 0
                   /\ ~NotForThisBoard(i) =>
                          /\ RunCalls(c, hw.tests[i].name) = 1
                          /\ res[i] = (IF hw.tests[i].run.ok THEN "Pass" ELSE "Fail")

\* A runner for board-B has handled, twice over, a test for {board-A}
\* (skipped, never run), a test for all boards and a test that lists board-B.
C12_Witness ==
    /\ hw.done
    /\ Len(hw.starts) = 2
    /\ hw.current_board = "board-B"
    /\ \E i \in 1..Len(hw.tests) :
           /\ hw.tests[i].supported_boards = {"board-A"}
           /\ HwSeg("results", 2)[i] = "Skip"
           /\ RunCalls(2, hw.tests[i].name) = 0
    /\ \E i \in 1..Len(hw.tests) :
           hw.tests[i].supported_boards = {} /\ RunCalls(2, hw.tests[i].name) = 1
    /\ \E i \in 1..Len(hw.tests) :
           "board-B" \in hw.tests[i].supported_boards /\ HwSeg("results", 2)[i] = "Fail"

\* C13: in the summary of every call of run_all, skipped tests are counted
\* neither as passed nor as failed; the verdict is "all passed" exactly when
\* failed = 0; and passed + failed + skipped equals the printed Total, the
\* number of tests.
C13_SkippedCountedApartVerdictOnFailed ==
    \A c \in HwCalls :
        LET np == HwPrinted(c, "Passed:  {}")
            nf == HwPrinted(c, "Failed:  {}")
            ns == HwPrinted(c, "Skipped: {}")
            nt == HwPrinted(c, "Total:   {}")
            T  == 1..Len(hw.tests)
        IN  /\ np = Cardinality({ i \in T : ~NotForThisBoard(i) /\ hw.tests[i].run.ok })
            /\ nf = Cardinality({ i \in T : ~NotForThisBoard(i) /\ ~hw.tests[i].run.ok })
            /\ ns = Cardinality({ i \in T : NotForThisBoard(i) })
            /\ nt = Len(hw.tests)
            /\ np + nf + ns = nt
            /\ HwLineCount(c, "=== All tests passed! ===") = (IF nf = 0 THEN 1 ELSE 0)
            /\ HwLineCount(c, "=== Tests FAILED ===") = (IF nf = 0 THEN 0 ELSE 1)

\* A suite with a skipped test and no failing test ended "all passed", in a
\* first and in a second call.
C13_Witness ==
    /\ hw.done
    /\ \A c \in 1..2 :
           /\ c \in HwCalls
           /\ HwPrinted(c, "Skipped: {}") >= 1
           /\ HwPrinted(c, "Passed:  {}") >= 1
           /\ HwPrinted(c, "Failed:  {}") = 0
           /\ HwPrinted(c, "Total:   {}") = Len(hw.tests)
           /\ HwLineCount(c, "=== All tests passed! ===") = 1

\* C14: run_all on a runner whose register() was not called is detected as
\* a fatal error at that set(): the runner is never left started, not
\* registered and not stopped, and no notification is ever pending for a
\* client that was not registered.
C14_UnregisteredSetIsFatal ==
    /\ (~registered /\ run_all_calls > 0) => (fatal /\ Count("set_unregistered") = 1)
    /\ ~registered => ~pending
    /\ fatal => (~registered /\ Count("callback") = 0)

C14_Witness ==
    /\ ~registered
    /\ run_all_calls = 1
    /\ fatal
    /\ N >= 1

\* ---------------------------------------------------- diagnostic rendering

\* The encodings of one Unicode scalar value (Unicode, table 3-7).
IsScalarEncoding(q) ==
    LET In(b, lo, hi) == lo <= b /\ b <= hi
    IN  \/ Len(q) = 1 /\ In(q[1], 0, 127)
        \/ Len(q) = 2 /\ In(q[1], 194, 223) /\ In(q[2], 128, 191)
        \/ Len(q) = 3 /\ q[1] = 224 /\ In(q[2], 160, 191) /\ In(q[3], 128, 191)
        \/ Len(q) = 3 /\ In(q[1], 225, 236) /\ In(q[2], 128, 191) /\ In(q[3], 128, 191)
        \/ Len(q) = 3 /\ q[1] = 237 /\ In(q[2], 128, 159) /\ In(q[3], 128, 191)
        \/ Len(q) = 3 /\ In(q[1], 238, 239) /\ In(q[2], 128, 191) /\ In(q[3], 128, 191)
        \/ Len(q) = 4 /\ q[1] = 240 /\ In(q[2], 144, 191) /\ In(q[3], 128, 191)
                      /\ In(q[4], 128, 191)
        \/ Len(q) = 4 /\ In(q[1], 241, 243) /\ In(q[2], 128, 191) /\ In(q[3], 128, 191)
                      /\ In(q[4], 128, 191)
        \/ Len(q) = 4 /\ q[1] = 244 /\ In(q[2], 128, 143) /\ In(q[3], 128, 191)
                      /\ In(q[4], 128, 191)

\* The bytes are valid text: they can be cut into encodings of scalar values.
IsText(bytes) ==
    \E cuts \in SUBSET (0..Len(bytes)) :
        /\ 0 \in cuts
        /\ Len(bytes) \in cuts
        /\ \A a \in cuts : a < Len(bytes) =>
               \E b \in cuts :
                   /\ a < b
                   /\ \A x \in cuts : ~(a < x /\ x < b)
                   /\ IsScalarEncoding(SubSeq(bytes, a + 1, b))

\* C15: rendering a Fail never fails.  Once the failing test has been
\* handled there is exactly one FAIL line, for that test; it carries the
\* stored bytes when they are valid text and the fixed placeholder when they
\* are not; and the runner has advanced past the test and goes on to the
\* next one (no fatal stop, next notification requested, next test started by
\* the following notification).
C15_FailRendersTextOrPlaceholder ==
    (N >= 1 /\ tests[1].test_fn.tag = "Fail" /\ Count("invoke") >= 1) =>
        LET m == tests[1].test_fn.msg
            fails == { k \in Lines(FailFmt) : output[k].name = 1 }
        IN  /\ Cardinality(fails) = 1
            /\ \A k \in fails :
                   output[k].msg = (IF IsText(m) THEN m ELSE InvalidUtf8Text)
            /\ ~fatal
            /\ failed >= 1
            /\ current_index >= 1
            /\ (current_index = 1 /\ N >= 2) => pending
            /\ (Count("callback") >= 2 /\ N >= 2) =>
                   \E p \in Lines(RunningFmt) : output[p].name = 2

\* A failing test whose bytes are an overlong three-byte form was reported
\* with the placeholder and the next test has started.
C15_Witness ==
    /\ N = 2
    /\ tests[1].test_fn = [tag |-> "Fail", msg |-> <<224, 128, 128>>]
    /\ \E k \in Lines(FailFmt) : output[k].name = 1 /\ output[k].msg = InvalidUtf8Text
    /\ \E p \in Lines(RunningFmt) : output[p].name = 2

\* The overall verdict a line states: the hardware runner's two verdict
\* lines state one; no format of TestOutput does.
VerdictOf(fmt) ==
    IF fmt = "=== All tests passed! ===" THEN "PASS"
    ELSE IF fmt = "=== Tests FAILED ===" THEN "FAIL"
    ELSE "none"

\* C16: the end of the kernel test suite states, besides the counts, an
\* overall verdict, which is FAIL exactly when failed > 0.
C16_SummaryStatesVerdict ==
    \A k \in Lines(CompleteFmt) :
        \E j \in 1..Len(output) :
            /\ j >= k
            /\ VerdictOf(output[j].fmt) = (IF output[k].b > 0 THEN "FAIL" ELSE "PASS")

\* Tokens of a kind minted so far, and performed gated operations of a kind.
MintsOf(kind) == { k \in 1..Len(boot.mints) : boot.mints[k].kind = kind }

UsesOf(op) == { k \in 1..Len(boot.uses) : boot.uses[k].op = op }

\* The capability kind a gated operation demands.
RequiredKind(op) ==
    IF op = "kernel_loop" THEN "MainLoopCapability" ELSE "SetDebugWriterCapability"

\* C17: during boot each capability kind is minted at most once, and exactly
\* once by the time the main loop is entered; no minting lies inside a loop;
\* the debug writer is designated at most once and the main loop entered at
\* most once, each with a token of the demanded kind minted earlier.
C17_TokensMintedOnceUsedOnce ==
    /\ \A kind \in CapabilityKinds : Cardinality(MintsOf(kind)) <= 1
    /\ boot.pc = "kernel_loop" =>
           \A kind \in CapabilityKinds : Cardinality(MintsOf(kind)) = 1
    /\ \A k \in 1..Len(boot.mints) : boot.mints[k].pc \notin LoopPcs
    /\ \A op \in { "set_debug_writer", "kernel_loop" } : Cardinality(UsesOf(op)) <= 1
    /\ \A u \in 1..Len(boot.uses) :
           /\ boot.uses[u].token \in 1..Len(boot.mints)
           /\ boot.mints[boot.uses[u].token].kind = RequiredKind(boot.uses[u].op)
    /\ boot.pc = "kernel_loop" <=> UsesOf("kernel_loop") # {}

\* The kernel_test build went through its delays and the launcher, designated
\* the debug writer and entered the main loop.
C17_Witness ==
    /\ boot.kernel_test
    /\ boot.pc = "kernel_loop"
    /\ UsesOf("set_debug_writer") # {}
    /\ UsesOf("kernel_loop") # {}
    /\ Len(boot.out) > 5

Min(a, b) == IF a <= b THEN a ELSE b

\* What a line says apart from a diagnostic text.
LineKey(l) == << l.fmt, l.name, l.a, l.b >>

\* The lines of the steps for the first n registered tests, in registry order.
RECURSIVE StepKeys(_)
StepKeys(n) ==
    IF n = 0 THEN <<>>
    ELSE StepKeys(n - 1) \o
         << << RunningFmt, n, 0, 0 >>,
            << IF tests[n].test_fn.tag = "Pass" THEN PassFmt ELSE FailFmt, n, 0, 0 >> >>

\* The output of a run in which run_all was called c times and k
\* notifications were delivered, were it independent of how the calls and the
\* notifications interleave: the value it has when the calls come first.
ExpectedKeys(c, k) ==
    [ j \in 1..c |-> << StartFmt, 0, N, 0 >> ]
    \o StepKeys(Min(k, N))
    \o [ j \in 1..(IF k > N THEN k - N ELSE 0) |-> << CompleteFmt, 0, PassCount, FailCount >> ]

\* C19: runs over the same registry with the same test results have the same
\* steps, output lines and counters however the dispatcher's drains are
\* timed: the output, the cursor and the counters are a function of the
\* registry, the calls made and the notifications delivered.
C19_RunDeterminedByRegistry ==
    LET k == Count("callback")
        m == Min(k, N)
    IN  /\ current_index = m
        /\ passed = Cardinality({ i \in 1..m : tests[i].test_fn.tag = "Pass" })
        /\ failed = Cardinality({ i \in 1..m : tests[i].test_fn.tag = "Fail" })
        /\ Invoked = [ j \in 1..m |-> j - 1 ]
        /\ [ p \in 1..Len(output) |-> LineKey(output[p]) ] = ExpectedKeys(run_all_calls, k)

\* C20: no step of the runner (run_all, the notification with run_next,
\* handle_test_result and advance_to_next_test, registration) inserts,
\* deletes or reorders descriptors: the registry the runner holds is the same
\* sequence after every step.
C20_RegistryImmutable == [][tests' = tests]_vars

\* A registry of several descriptors, mixed results, has been run to its
\* summary with run_all called more than once.
C20_Witness ==
    /\ N >= 2
    /\ PassCount >= 1
    /\ FailCount >= 1
    /\ run_all_calls >= 2
    /\ SummaryEmitted
    /\ Len(Invoked) = N

\* mpu::KERNEL_TESTS, the array register_kernel_tests! builds: the names of
\* the registered descriptors in registration order.
KERNEL_TESTS ==
    << "test_mpu_basic_configuration", "test_mpu_region_boundaries",
       "test_mpu_flash_protection", "test_mpu_peripheral_isolation",
       "test_mpu_overlapping_regions", "test_mpu_null_pointer_protection" >>

\* get_kernel_tests() in a build with or without the kernel_test feature
get_kernel_tests(kernel_test) == IF kernel_test THEN KERNEL_TESTS ELSE <<>>

\* The names the board's launcher has reported as run, in order.
LauncherReported ==
    LET run == SelectSeq(boot.out, LAMBDA l : l.fmt = "[TEST] Running test {}: {}")
    IN  [ j \in 1..Len(run) |-> run[j].name ]

\* C21: once the board has started its tests and entered the main loop, the
\* tests its launcher reported as run are, by name and order, the descriptors
\* of the registry get_kernel_tests returns.
C21_LauncherRunsRegistry ==
    (boot.kernel_test /\ boot.pc = "kernel_loop") =>
        LauncherReported = get_kernel_tests(boot.kernel_test)

\* The calls of TestLauncher::next that started a test step (the last call
\* of next writes the summary).
StepCalls == 1..(Len(boot.launcher.calls) - 1)

\* C22: no test step of the board's launcher is started from within the call
\* chain of the previous step: every step starts with the same number of
\* launcher frames on the stack as the first, whatever the number of tests.
C22_LauncherStepsNotNested ==
    \A j \in StepCalls : boot.launcher.calls[j] = boot.launcher.calls[1]

\* C23: current_index, passed and failed start at 0; current_index never
\* decreases and never exceeds the registry length; passed and failed never
\* decrease.
C23_CursorAndCountersMonotone ==
    /\ current_index = 0 /\ passed = 0 /\ failed = 0
    /\ [](current_index \in 0..N /\ passed >= 0 /\ failed >= 0)
    /\ [][/\ current_index' >= current_index
          /\ passed' >= passed
          /\ failed' >= failed]_vars

\* The cursor has reached the end of a registry with passing and failing
\* tests and the runner has gone quiet.
C23_Witness ==
    /\ N >= 2
    /\ current_index = N
    /\ passed >= 1
    /\ failed >= 1
    /\ ~pending

\* C24: between callbacks passed + failed = current_index, and a step that
\* runs a test adds 1 to exactly one of passed and failed, leaving the other
\* as it was.
C24_CountersSumToCursor ==
    /\ [](passed + failed = current_index)
    /\ [][Count("invoke")' > Count("invoke") =>
              \/ passed' = passed + 1 /\ failed' = failed
              \/ failed' = failed + 1 /\ passed' = passed]_vars

\* Both kinds of step have happened and a test is still to run.
C24_Witness ==
    /\ passed >= 1
    /\ failed >= 1
    /\ current_index < N
    /\ pending

\* run_all was called while a suite was in progress: after an earlier
\* run_all and before any summary.
RestartPositions ==
    { k \in Pos("run_all") : CountUpTo("run_all", k - 1) >= 1 /\ CountUpTo("summary", k) = 0 }

\* C25: when run_all was called again during a suite, no test is skipped or
\* run twice and the cursor and counters are not reset: the indices invoked
\* are 0, 1, 2, ... each once, the cursor and the counters stand at what the
\* invoked tests give, and at the summary all N tests have run and the counts
\* are those of the registry.
C25_RestartKeepsProgress ==
    RestartPositions # {} =>
        /\ Len(Invoked) <= N
        /\ Invoked = [ j \in 1..Len(Invoked) |-> j - 1 ]
        /\ current_index = Len(Invoked)
        /\ passed = Cardinality({ i \in 1..current_index : tests[i].test_fn.tag = "Pass" })
        /\ failed = Cardinality({ i \in 1..current_index : tests[i].test_fn.tag = "Fail" })
        /\ SummaryEmitted =>
               /\ Len(Invoked) = N
               /\ \A k \in Lines(CompleteFmt) :
                      output[k].a = PassCount /\ output[k].b = FailCount

\* run_all was called again after the first test of several had run, and the
\* suite then ran to its summary.
C25_Witness ==
    /\ N >= 2
    /\ \E k \in RestartPositions : CountUpTo("invoke", k) \in 1..(N - 1)
    /\ SummaryEmitted
    /\ PassCount >= 1
    /\ FailCount >= 1

\* The format of the line that reports a classification.
HwResultFmt(tag) ==
    IF tag = "Skip" THEN "  SKIP: Not supported on {}"
    ELSE IF tag = "Pass" THEN "  PASS"
    ELSE "  FAIL: {}"

\* Number of header lines run_all writes before the first test.
HwHeaderLines == 4

\* C26: in every call of the hardware runner's run_all, every test of the
\* sequence is handled exactly once in sequence order, whatever the tests
\* before it returned; run() is called at most once per test, in sequence
\* order; and the output holds, for each test in order, its Running line
\* immediately followed by exactly one SKIP, PASS or FAIL line, before the
\* next test's.
C26_HwEachTestOnceInOrder ==
    \A c \in HwCalls :
        LET n == Len(hw.tests)
            res == HwSeg("results", c)
            inv == HwSeg("invoked", c)
            out == HwSeg("output", c)
        IN  /\ Len(res) = n
            /\ \A j, k \in 1..Len(inv) : j < k => inv[j] < inv[k]
            /\ \A i \in 1..n : RunCalls(c, hw.tests[i].name) <= 1
            /\ HwLineCount(c, "Running: {}") = n
            /\ HwLineCount(c, "  SKIP: Not supported on {}") + HwLineCount(c, "  PASS")
                   + HwLineCount(c, "  FAIL: {}") = n
            /\ \A i \in 1..n :
                   /\ out[HwHeaderLines + 2 * i - 1].fmt = "Running: {}"
                   /\ out[HwHeaderLines + 2 * i - 1].n = hw.tests[i].name
                   /\ out[HwHeaderLines + 2 * i].fmt = HwResultFmt(res[i])

\* A failing test and a skipped test were followed by a test that ran, in
\* each of two calls of run_all.
C26_Witness ==
    /\ Len(hw.starts) = 2
    /\ Len(hw.tests) = 3
    /\ hw.results = << "Fail", "Skip", "Pass", "Fail", "Skip", "Pass" >>
    /\ hw.invoked = << 1, 3, 1, 3 >>

====
